---- MODULE Spec2Model ----
(***************************************************************************)
(* A model of pariksha's helper.go: the profiling pipeline (RunProfiling,  *)
(* WriteProfileAndExport, GenerateGraph), the parallel workload            *)
(* (ExecuteHandler under RunParallel) and assertion mode (RunSingle).      *)
(***************************************************************************)
EXTENDS Integers, Sequences, FiniteSets, TLC

\* ------------------------------------------------------------------ bounds
\* longest ProfilingOutputFormats list explored
MaxFormats == 2
\* longest EnabledProfilingTypes list explored
MaxKinds == 2
\* environment failures (temp creation, profile write, render, file write)
\* injected into one run
MaxFaults == 2
\* worker goroutines B.RunParallel starts
NumWorkers == 2
\* b.N of the profiling benchmark
BenchN == 2

\* ------------------------------------------------------------- universes
\* "svg" is a format the rendering tool knows and the harness does not list
FormatUniverse == {"png", "pdf", "svg"}
\* "bogus" is a name absent from the runtime's profile registry
KindUniverse == {"heap", "bogus"}
\* the profiles runtime/pprof registers (the names of helper_test.go:84-90)
KnownProfiles == {"heap", "goroutine", "block", "mutex", "threadcreate"}

SeqsUpTo(S, n) == UNION {[1..k -> S] : k \in 0..n}

\* --- strings the helpers compute on are sequences of one-character strings
MaxOf(S) == CHOOSE x \in S : \A y \in S : y <= x

\* the test cases explored: a name with a space under a function name with a
\* path separator, and a plain name with FunctionName left unset
TestCases ==
  {[Name |-> <<"a", " ", "b">>, FunctionName |-> <<"p", "/", "F">>],
   [Name |-> <<"a", "b">>, FunctionName |-> <<>>]}

\* strings.ReplaceAll(s, old, new) for a one-character old and a new of one
\* character or none
ReplaceAll(s, old, new) ==
  IF new = ""
    THEN SelectSeq(s, LAMBDA c : c # old)
    ELSE [i \in DOMAIN s |-> IF s[i] = old THEN new ELSE s[i]]

\* filepath.Base: "." for the empty path, trailing separators stripped, then
\* what follows the last separator
Base(path) ==
  LET n == MaxOf({i \in DOMAIN path : path[i] # "/"} \cup {0})
      slash == MaxOf({i \in 1..n : path[i] = "/"} \cup {0})
  IN  IF path = <<>> THEN <<".">>
      ELSE IF n = 0 THEN <<"/">>
      ELSE SubSeq(path, slash + 1, n)

\* the elements of a path between its separators
RECURSIVE SplitPath(_)
SplitPath(s) ==
  LET slashes == {i \in DOMAIN s : s[i] = "/"} IN
  IF slashes = {} THEN <<s>>
  ELSE LET i == CHOOSE j \in slashes : \A k \in slashes : j <= k IN
       <<SubSeq(s, 1, i - 1)>> \o SplitPath(SubSeq(s, i + 1, Len(s)))

\* filepath.Clean on the elements of a relative path: empty and "." elements
\* go, ".." takes the element before it along
RECURSIVE CleanElems(_, _)
CleanElems(todo, acc) ==
  IF todo = <<>> THEN acc
  ELSE LET c == Head(todo) IN
       IF c = <<>> \/ c = <<".">>
         THEN CleanElems(Tail(todo), acc)
       ELSE IF c = <<".", ".">> /\ acc # <<>> /\ acc[Len(acc)] # <<".", ".">>
         THEN CleanElems(Tail(todo), SubSeq(acc, 1, Len(acc) - 1))
       ELSE CleanElems(Tail(todo), Append(acc, c))

RECURSIVE JoinElems(_)
JoinElems(elems) ==
  IF elems = <<>> THEN <<>>
  ELSE IF Len(elems) = 1 THEN elems[1]
  ELSE elems[1] \o <<"/">> \o JoinElems(Tail(elems))

\* filepath.Join: the non-empty elements joined by separators, then cleaned
Join(elems) ==
  LET joined == JoinElems(SelectSeq(elems, LAMBDA e : e # <<>>))
      cleaned == JoinElems(CleanElems(SplitPath(joined), <<>>))
  IN  IF cleaned = <<>> THEN <<".">> ELSE cleaned

Profiles == <<"p", "r", "o", "f", "i", "l", "e", "s">>

\* mutant: the test name goes into the path as it is
GetProfileDir_KeepSpaces(name, functionName) ==
  Join(<<Profiles, Base(functionName), name>>)

\* tc.GetProfileDir()
GetProfileDir(name, functionName) ==
  LET caseName == ReplaceAll(name, " ", "_")
      fnName == Base(functionName)
  IN  Join(<<Profiles, fnName, caseName>>)

\* the permission bits MakeDirIfNotExists asks for
Perm0755 == 493
\* os.ModePerm, the bits RunProfiling asks for
ModePerm == 511

CpuArtifact == <<"cpu", 0>>
ExtArtifact == <<"ext", 0>>
SnapArtifact(i) == <<"snap", i>>

OutPaths == ({"cpu"} \cup KindUniverse) \X FormatUniverse

Workers == 1..NumWorkers

\* --- response bodies, as far as json.Unmarshal into map[string]Resp tells
\* them apart
JsonKeys == {"response", "message"}
Codes == {0, 200}
\* a member value: t is its JSON type ("absent": the key is not there), codeT
\* the type of its "code" member ("other": not an integer number)
Absent == [t |-> "absent", codeT |-> "absent", code |-> 0]
JsonValues ==
  {[t |-> ty, codeT |-> "absent", code |-> 0] : ty \in {"null", "string", "object"}}
  \cup {[t |-> "object", codeT |-> "other", code |-> 0]}
  \cup {[t |-> "object", codeT |-> "int", code |-> c] : c \in Codes}
\* kind: "invalid" (not JSON), "null", "scalar" (a string, number or array)
\* or "object"
Bodies ==
  {[kind |-> k, fields |-> [key \in JsonKeys |-> Absent]] :
      k \in {"invalid", "null", "scalar"}}
  \cup {[kind |-> "object", fields |-> f] :
      f \in [JsonKeys -> JsonValues \cup {Absent}]}
ZeroOuter == [err |-> FALSE, present |-> {}, Code |-> [k \in JsonKeys |-> 0]]

VARIABLES
  entry,                  \* the exported function the caller invoked
  tcName,                 \* tc.Name, a string as its sequence of characters
  FunctionName,           \* tc.FunctionName, likewise
  pc,                     \* position inside that call
  ProfilingOutputFormats, \* process-wide configuration
  EnabledProfilingTypes,  \* process-wide configuration
  dirExists,              \* the profile directory is present
  dirMode,                \* its permission bits, 0 while it is absent
  profileDir,             \* the directory the images go to, <<>> before it is known
  files,                  \* content of every output path
  created,                \* temp artifacts successfully created
  existing,               \* temp artifacts present on disk
  removes,                \* os.Remove calls per artifact
  cpuProfiling,           \* who holds the process-wide CPU session
  blockRate, mutexRate,   \* process-wide sampling rates
  workloadRuns,           \* RunParallel invocations
  startCalls,             \* pprof.StartCPUProfile calls that returned nil
  stopCalls,              \* pprof.StopCPUProfile calls
  tbFailed,               \* require.* reported a failure on tc.B (FailNow)
  panicked,               \* a panic left the call
  unwinding,              \* "none", "goexit" (FailNow) or "panic"
  logs,                   \* messages logged
  attempts,               \* GenerateGraph calls as <<profile index, format index>>
  toolCalls,              \* rendering tool runs as <<artifact, format>>
  wpeCalls,               \* indices of EnabledProfilingTypes handed to the writer
  captured,               \* indices whose profile reached its temp artifact
  fi, ki,                 \* loop indices over formats and kinds
  faults,                 \* environment failures so far
  \* --- the workload: ExecuteHandler under B.RunParallel
  ContextKeys,            \* tc.ContextKeys: "nil" or "tcmap", the caller's map
  tcmap,                  \* the value the caller's map holds under the key
  hashWriting,            \* workers inside a write to the caller's map
  itersLeft,              \* iterations pb.Next() still hands out
  wpc,                    \* each worker's position
  ctxKeys,                \* each worker's ctx.Keys: "nil", "tcmap" or "own"
  ownmap,                 \* the value of a map the worker's context made
  got,                    \* what the handler's c.Get returned, 0 before
  crashed,                \* the runtime threw on a concurrent map access
  \* --- assertion mode: RunSingle
  body,                   \* the response body the handler writes
  ExpectedCode,           \* tc.ExpectedCode
  LogResponse,            \* the package flag
  spc,                    \* position inside RunSingle
  recorder,               \* recorder.Body, "unset" before the handler ran
  outer,                  \* json.Unmarshal's result
  tLogged,                \* tc.T.Log was called
  verdict,                \* "running", "pass" or the require that failed
  \* --- the UUID helpers
  uuidIn,                 \* the string handed to GetBsonIdFromUUId
  binData,                \* what GetBsonIdFromUUId returned
  bsonID,                 \* the string handed to GetStringUUidFromBsonId
  uuidOut,                \* the UUID string it returned
  uuidErr,                \* the error it returned, "nil" for none
  upc,                    \* position of the caller of the helpers
  \* --- benchmark mode: RunBenchmark
  tcBN,                   \* tc.B.N, the iteration count of the outer benchmark
  bN,                     \* b.N of the sub-benchmark invocation under way
  bi,                     \* the loop variable i
  handlerCalls,           \* ExecuteHandler calls of the invocation under way
  benchLog,               \* <<b.N, ExecuteHandler calls>> of each invocation ended
  bpc,                    \* position inside RunBenchmark
  \* --- two RunProfiling calls under way in one process
  rpc,                    \* each call's position
  rStarted,               \* pprof.StartCPUProfile returned nil to the call
  rFailed,                \* the function whose error require.NoError reported
                          \* on the call's tc.B, "none" when there is none
  rStops,                 \* pprof.StopCPUProfile calls of the call
  rLeft,                  \* workload iterations the call has still to run
  rSampled                \* its iterations that ran with its session on

vars == <<entry, tcName, FunctionName, pc, ProfilingOutputFormats,
          EnabledProfilingTypes, dirExists, dirMode, profileDir,
          files, created, existing, removes, cpuProfiling, blockRate, mutexRate,
          workloadRuns, startCalls, stopCalls, tbFailed, panicked, unwinding, logs,
          attempts, toolCalls, wpeCalls, captured, fi, ki, faults,
          ContextKeys, tcmap, hashWriting, itersLeft, wpc, ctxKeys, ownmap,
          got, crashed,
          body, ExpectedCode, LogResponse, spc, recorder, outer, tLogged,
          verdict,
          uuidIn, binData, bsonID, uuidOut, uuidErr, upc,
          tcBN, bN, bi, handlerCalls, benchLog, bpc,
          rpc, rStarted, rFailed, rStops, rLeft, rSampled>>

config == <<entry, tcName, FunctionName, ProfilingOutputFormats,
            EnabledProfilingTypes>>
dirVars == <<dirExists, dirMode, profileDir>>
fsVars == <<dirVars, files>>
tempVars == <<created, existing, removes>>
cpuVars == <<cpuProfiling, blockRate, mutexRate, workloadRuns, startCalls,
             stopCalls>>
exportVars == <<files, logs, attempts, toolCalls, faults>>
workloadVars == <<ContextKeys, tcmap, hashWriting, itersLeft, wpc, ctxKeys,
                  ownmap, got, crashed>>
singleVars == <<body, ExpectedCode, LogResponse, spc, recorder, outer, tLogged,
                verdict>>
uuidVars == <<uuidIn, binData, bsonID, uuidOut, uuidErr, upc>>
\* the state of the helpers outside the pipeline, the workload and RunSingle
benchVars == <<tcBN, bN, bi, handlerCalls, benchLog, bpc>>
twoRunVars == <<rpc, rStarted, rFailed, rStops, rLeft, rSampled>>
helperVars == <<uuidVars, benchVars, twoRunVars>>
\* the state of the profiling pipeline
profilingVars == <<config, fsVars, tempVars, cpuVars, tbFailed, panicked,
                   unwinding, pc, logs, attempts, toolCalls, wpeCalls,
                   captured, fi, ki, faults>>
\* what the workload and RunSingle never write
pipelineVars == <<profilingVars, helperVars>>
\* what the UUID helpers never write
notUuidVars == <<profilingVars, workloadVars, singleVars, benchVars,
                 twoRunVars>>
\* what RunBenchmark never writes
notBenchVars == <<profilingVars, workloadVars, singleVars, uuidVars,
                  twoRunVars>>
\* what lines 157-179 of RunProfiling never write: all but the CPU session,
\* the rates and the state of the two calls
notSessionVars == <<config, fsVars, tempVars, tbFailed, panicked, unwinding, pc,
                    logs, attempts, toolCalls, wpeCalls, captured, fi, ki,
                    faults, workloadVars, singleVars, uuidVars, benchVars>>
\* what the profiling pipeline's own steps never write
static == <<config, workloadVars, singleVars, helperVars>>

Artifacts == {CpuArtifact, ExtArtifact} \cup {SnapArtifact(i) : i \in 1..MaxKinds}

\* ------------------------------------------------------------------ Init
\* no workload is running
WorkloadIdle ==
  /\ ContextKeys = "nil"
  /\ tcmap = 0
  /\ hashWriting = {}
  /\ itersLeft = 0
  /\ wpc = [w \in Workers |-> "exit"]
  /\ ctxKeys = [w \in Workers |-> "nil"]
  /\ ownmap = [w \in Workers |-> 0]
  /\ got = [w \in Workers |-> 0]
  /\ crashed = FALSE

\* no assertion is running
SingleIdle ==
  /\ body = [kind |-> "null", fields |-> [key \in JsonKeys |-> Absent]]
  /\ ExpectedCode = 0
  /\ LogResponse = FALSE
  /\ spc = "idle"
  /\ recorder = "unset"
  /\ outer = ZeroOuter
  /\ tLogged = FALSE
  /\ verdict = "running"

\* no UUID helper is running
UuidIdle ==
  /\ uuidIn = <<>>
  /\ binData = <<>>
  /\ bsonID = <<>>
  /\ uuidOut = <<>>
  /\ uuidErr = "nil"
  /\ upc = "idle"

\* no benchmark is running
BenchIdle ==
  /\ tcBN = 0
  /\ bN = 0
  /\ bi = 0
  /\ handlerCalls = 0
  /\ benchLog = <<>>
  /\ bpc = "idle"

\* the two concurrent calls
Runs == {"runA", "runB"}

\* no pair of overlapping calls is running
TwoRunsIdle ==
  /\ rpc = [r \in Runs |-> "idle"]
  /\ rStarted = [r \in Runs |-> FALSE]
  /\ rFailed = [r \in Runs |-> "none"]
  /\ rStops = [r \in Runs |-> 0]
  /\ rLeft = [r \in Runs |-> 0]
  /\ rSampled = [r \in Runs |-> 0]

HelpersIdle == UuidIdle /\ BenchIdle /\ TwoRunsIdle

\* no profiling call is running and none has run
ProfilingIdle ==
  /\ tcName = <<"a", "b">>
  /\ FunctionName = <<>>
  /\ profileDir = <<>>
  /\ pc = "done"
  /\ ProfilingOutputFormats = <<"png">>
  /\ EnabledProfilingTypes = <<>>
  /\ dirExists = FALSE
  /\ dirMode = 0
  /\ files = [p \in OutPaths |-> "absent"]
  /\ created = {}
  /\ existing = {}
  /\ removes = [a \in Artifacts |-> 0]
  /\ cpuProfiling = "none"
  /\ blockRate = 0
  /\ mutexRate = 0
  /\ workloadRuns = 0
  /\ startCalls = 0
  /\ stopCalls = 0
  /\ tbFailed = FALSE
  /\ panicked = FALSE
  /\ unwinding = "none"
  /\ logs = {}
  /\ attempts = {}
  /\ toolCalls = {}
  /\ wpeCalls = {}
  /\ captured = {}
  /\ fi = 1
  /\ ki = 1
  /\ faults = 0

PipelineInit ==
  /\ entry \in {"RunProfiling", "WriteProfileAndExport", "GenerateGraph",
                "MakeDirIfNotExists"}
  /\ \E tc \in TestCases : tcName = tc.Name /\ FunctionName = tc.FunctionName
  /\ pc = CASE entry = "RunProfiling" -> "rp_begin"
            [] entry = "WriteProfileAndExport" -> "wpe_begin"
            [] entry = "MakeDirIfNotExists" -> "mk_first"
            [] OTHER -> "gg_direct"
  /\ ProfilingOutputFormats \in SeqsUpTo(FormatUniverse, MaxFormats)
  /\ EnabledProfilingTypes \in SeqsUpTo(KindUniverse, MaxKinds)
  /\ entry = "WriteProfileAndExport" => Len(EnabledProfilingTypes) = 1
  /\ entry \in {"GenerateGraph", "MakeDirIfNotExists"} =>
        Len(EnabledProfilingTypes) = 1 /\ Len(ProfilingOutputFormats) = 1
  \* a directory left by an earlier run, with or without its images
  /\ dirExists \in BOOLEAN
  \* a directory an earlier run made has the bits of MakeDirIfNotExists; the
  \* one handed to a direct MakeDirIfNotExists was made by the user with 0700
  /\ dirMode = IF ~dirExists THEN 0
               ELSE IF entry = "MakeDirIfNotExists" THEN 448
               ELSE Perm0755
  \* RunProfiling computes the directory; a direct caller passes it in
  /\ profileDir = IF entry = "RunProfiling" THEN <<>>
                  ELSE GetProfileDir(tcName, FunctionName)
  /\ \E old \in BOOLEAN :
        /\ old => dirExists
        /\ files = [p \in OutPaths |-> IF old THEN "old" ELSE "absent"]
  /\ created = {}
  /\ existing \in (IF entry = "GenerateGraph" THEN {{}, {ExtArtifact}} ELSE {{}})
  /\ removes = [a \in Artifacts |-> 0]
  \* another CPU session (e.g. go test -cpuprofile) may already be active
  /\ cpuProfiling \in {"none", "other"}
  /\ blockRate = 0
  /\ mutexRate = 0
  /\ workloadRuns = 0
  /\ startCalls = 0
  /\ stopCalls = 0
  /\ tbFailed = FALSE
  /\ panicked = FALSE
  /\ unwinding = "none"
  /\ logs = {}
  /\ attempts = {}
  /\ toolCalls = {}
  /\ wpeCalls = {}
  /\ captured = {}
  /\ fi = 1
  /\ ki = 1
  /\ faults = 0

Init == PipelineInit /\ WorkloadIdle /\ SingleIdle /\ HelpersIdle

\* ------------------------------------------------------------ environment
\* an environment failure may be injected while the budget lasts
CanFault == faults < MaxFaults

\* formats the external rendering tool (go tool pprof -<format>) produces
ToolFormats == {"png", "pdf", "svg"}

\* os.WriteFile(outputPath, output, 0644): open with O_CREATE|O_TRUNC, write,
\* close. err is "open" (nothing touched), "write" (truncated, then short) or
\* "nil".
WriteFile(outputPath, err) ==
  files' = CASE err = "open" -> files
             [] err = "write" -> [files EXCEPT ![outputPath] = "partial"]
             [] OTHER -> [files EXCEPT ![outputPath] = "complete"]

\* ------------------------------------------------------------ GenerateGraph
GenerateGraph(profilePath, outputPath, format) ==
  /\ toolCalls' = toolCalls \cup {<<profilePath, format>>}
  /\ \/ \* cmd.Output() returns an error: logged, return
        /\ \/ profilePath \notin existing /\ faults' = faults
           \/ format \notin ToolFormats /\ faults' = faults
           \/ CanFault /\ faults' = faults + 1
        /\ logs' = logs \cup {<<"generate_failed", outputPath[1], format>>}
        /\ files' = files
     \/ \* the tool rendered; os.WriteFile decides the rest
        /\ profilePath \in existing
        /\ format \in ToolFormats
        /\ \E err \in {"open", "write", "nil"} :
             /\ CASE err = "open" ->
                       \/ ~dirExists /\ faults' = faults
                       \/ CanFault /\ faults' = faults + 1
                  [] err = "write" ->
                       dirExists /\ CanFault /\ faults' = faults + 1
                  [] OTHER -> dirExists /\ faults' = faults
             /\ WriteFile(outputPath, err)
             /\ logs' = logs \cup
                  {<<(IF err = "nil" THEN "saved" ELSE "write_failed"),
                     outputPath[1], format>>}

\* --------------------------------------------------------------- helpers
\* RunProfiling's own format test (helper.go:183)
IsSupportedFormat(format) == format \in {"png", "pdf"}

\* --- the directory d as [exists, mode]; ok tells whether the environment
\* lets a creation succeed
\* mutant: the permission bits are applied to a directory that is there
MkdirAll_Chmod(d, perm, ok) ==
  IF ok THEN [exists |-> TRUE, mode |-> perm] ELSE d

\* os.MkdirAll(path, perm): nothing to do, and no error, for a directory that
\* is there; otherwise it is created with perm, or the call fails
MkdirAll(d, perm, ok) ==
  IF d.exists THEN d
  ELSE IF ok THEN [exists |-> TRUE, mode |-> perm]
  ELSE d

\* os.Stat, os.IsNotExist, os.MkdirAll(path, 0755); its error is dropped
MakeDirIfNotExists(d, ok) ==
  IF ~d.exists THEN MkdirAll(d, Perm0755, ok) ELSE d

\* deferred Close and os.Remove of a temp artifact
RemoveTemp(a) ==
  /\ existing' = existing \ {a}
  /\ removes' = [removes EXCEPT ![a] = @ + 1]
  /\ created' = created

\* ------------------------------------------------------------ RunProfiling
\* mutant: the empty-format test of helper.go:147 is missing
RP_CheckFormats_NoSkip ==
  /\ pc = "rp_begin"
  /\ pc' = "rp_mkdir"
  /\ UNCHANGED <<static, captured, fsVars, tempVars, cpuVars, tbFailed, panicked,
                 unwinding, logs, attempts, toolCalls, wpeCalls, fi, ki, faults>>

RP_CheckFormats ==
  /\ pc = "rp_begin"
  /\ pc' = IF Len(ProfilingOutputFormats) = 0 THEN "done" ELSE "rp_mkdir"
  /\ UNCHANGED <<static, captured, fsVars, tempVars, cpuVars, tbFailed, panicked,
                 unwinding, logs, attempts, toolCalls, wpeCalls, fi, ki, faults>>

\* MakeDirIfNotExists(profileDir), then os.MkdirAll(profileDir, os.ModePerm),
\* its error dropped as well
RP_PrepareDir ==
  /\ pc = "rp_mkdir"
  /\ profileDir' = GetProfileDir(tcName, FunctionName)
  /\ \E ok1, ok2 \in BOOLEAN :
       LET d0 == [exists |-> dirExists, mode |-> dirMode]
           d1 == MakeDirIfNotExists(d0, ok1)
           d2 == MkdirAll(d1, ModePerm, ok2)
       IN  /\ d0.exists => ok1
           /\ d1.exists => ok2
           /\ (ok1 /\ ok2) \/ CanFault
           /\ faults' = IF ok1 /\ ok2 THEN faults ELSE faults + 1
           /\ dirExists' = d2.exists
           /\ dirMode' = d2.mode
  /\ pc' = "rp_cputemp"
  /\ UNCHANGED <<static, captured, files, tempVars, cpuVars, tbFailed, panicked,
                 unwinding, logs, attempts, toolCalls, wpeCalls, fi, ki>>

\* os.CreateTemp + require.NoError; the defers are registered after it
RP_CreateCPUTemp ==
  /\ pc = "rp_cputemp"
  /\ \/ /\ created' = created \cup {CpuArtifact}
        /\ existing' = existing \cup {CpuArtifact}
        /\ pc' = "rp_start"
        /\ UNCHANGED <<tbFailed, unwinding, faults>>
     \/ /\ CanFault
        /\ faults' = faults + 1
        /\ tbFailed' = TRUE
        /\ unwinding' = "goexit"
        /\ pc' = "done"
        /\ UNCHANGED <<created, existing>>
  /\ UNCHANGED <<static, captured, fsVars, removes, cpuVars, panicked, logs, attempts,
                 toolCalls, wpeCalls, fi, ki>>

\* mutant: the error of pprof.StartCPUProfile is not required to be nil
RP_StartCPUProfile_IgnoreErr ==
  /\ pc = "rp_start"
  /\ cpuProfiling' = IF cpuProfiling = "none" THEN "run" ELSE cpuProfiling
  /\ startCalls' = IF cpuProfiling = "none" THEN startCalls + 1 ELSE startCalls
  /\ pc' = "rp_rates"
  /\ UNCHANGED <<tbFailed, unwinding>>
  /\ UNCHANGED <<static, captured, fsVars, tempVars, blockRate, mutexRate,
                 workloadRuns, stopCalls, panicked, logs, attempts, toolCalls, wpeCalls,
                 fi, ki, faults>>

\* pprof.StartCPUProfile + require.NoError: fails iff a session is active
RP_StartCPUProfile ==
  /\ pc = "rp_start"
  /\ IF cpuProfiling = "none"
       THEN /\ cpuProfiling' = "run"
            /\ startCalls' = startCalls + 1
            /\ pc' = "rp_rates"
            /\ UNCHANGED <<tbFailed, unwinding>>
       ELSE /\ tbFailed' = TRUE
            /\ unwinding' = "goexit"
            /\ pc' = "rp_defers"
            /\ UNCHANGED <<cpuProfiling, startCalls>>
  /\ UNCHANGED <<static, captured, fsVars, tempVars, blockRate, mutexRate,
                 workloadRuns, stopCalls, panicked, logs, attempts, toolCalls, wpeCalls,
                 fi, ki, faults>>

RP_SetRates ==
  /\ pc = "rp_rates"
  /\ blockRate' = 1
  /\ mutexRate' = 1
  /\ pc' = "rp_workload"
  /\ UNCHANGED <<static, captured, fsVars, tempVars, cpuProfiling, workloadRuns,
                 startCalls, stopCalls, tbFailed, panicked, unwinding, logs, attempts,
                 toolCalls, wpeCalls, fi, ki, faults>>

RP_RunParallel ==
  /\ pc = "rp_workload"
  /\ workloadRuns' = workloadRuns + 1
  /\ pc' = "rp_stop"
  /\ UNCHANGED <<static, captured, fsVars, tempVars, cpuProfiling, blockRate, mutexRate,
                 startCalls, stopCalls, tbFailed, panicked, unwinding, logs, attempts,
                 toolCalls, wpeCalls, fi, ki, faults>>

\* mutant: the loop over the formats of the CPU profile is left out
RP_StopCPUProfile_SkipExport ==
  /\ pc = "rp_stop"
  /\ stopCalls' = stopCalls + 1
  /\ cpuProfiling' = "none"
  /\ fi' = 1
  /\ pc' = "rp_kinds"
  /\ UNCHANGED <<static, captured, fsVars, tempVars, blockRate, mutexRate,
                 workloadRuns, startCalls, tbFailed, panicked, unwinding, logs,
                 attempts, toolCalls, wpeCalls, ki, faults>>

\* pprof.StopCPUProfile ends the process-wide session
RP_StopCPUProfile ==
  /\ pc = "rp_stop"
  /\ stopCalls' = stopCalls + 1
  /\ cpuProfiling' = "none"
  /\ fi' = 1
  /\ pc' = "rp_cpu_export"
  /\ UNCHANGED <<static, captured, fsVars, tempVars, blockRate, mutexRate,
                 workloadRuns, startCalls, tbFailed, panicked, unwinding, logs,
                 attempts, toolCalls, wpeCalls, ki, faults>>

\* mutant: a failed export of the CPU profile ends the run
RP_ExportCPU_StopOnFailure ==
  /\ pc = "rp_cpu_export"
  /\ IF fi > Len(ProfilingOutputFormats)
       THEN /\ pc' = "rp_kinds"
            /\ ki' = 1
            /\ UNCHANGED <<fi, exportVars>>
       ELSE LET format == ProfilingOutputFormats[fi] IN
            IF ~IsSupportedFormat(format)
              THEN /\ logs' = logs \cup {<<"invalid_format", "cpu", format>>}
                   /\ pc' = "rp_defers"
                   /\ UNCHANGED <<fi, ki, files, attempts, toolCalls, faults>>
              ELSE /\ attempts' = attempts \cup {<<0, fi>>}
                   /\ GenerateGraph(CpuArtifact, <<"cpu", format>>, format)
                   /\ fi' = fi + 1
                   /\ pc' = IF faults' = faults THEN "rp_cpu_export" ELSE "rp_defers"
                   /\ UNCHANGED ki
  /\ UNCHANGED <<static, captured, dirVars, tempVars, cpuVars, tbFailed, panicked,
                 unwinding, wpeCalls>>

\* one turn of the loop of helper.go:182-189
RP_ExportCPU ==
  /\ pc = "rp_cpu_export"
  /\ IF fi > Len(ProfilingOutputFormats)
       THEN /\ pc' = "rp_kinds"
            /\ ki' = 1
            /\ UNCHANGED <<fi, exportVars>>
       ELSE LET format == ProfilingOutputFormats[fi] IN
            IF ~IsSupportedFormat(format)
              THEN /\ logs' = logs \cup {<<"invalid_format", "cpu", format>>}
                   /\ pc' = "rp_defers"
                   /\ UNCHANGED <<fi, ki, files, attempts, toolCalls, faults>>
              ELSE /\ attempts' = attempts \cup {<<0, fi>>}
                   /\ GenerateGraph(CpuArtifact, <<"cpu", format>>, format)
                   /\ fi' = fi + 1
                   /\ pc' = "rp_cpu_export"
                   /\ UNCHANGED ki
  /\ UNCHANGED <<static, captured, dirVars, tempVars, cpuVars, tbFailed, panicked,
                 unwinding, wpeCalls>>

\* mutant: the CPU temp file is removed when the loop over its formats is
\* over, ahead of the first kind
RP_NextProfile_RemoveFirst ==
  /\ pc = "rp_kinds"
  /\ IF ki > Len(EnabledProfilingTypes)
       THEN pc' = "rp_defers" /\ UNCHANGED wpeCalls
       ELSE pc' = "wpe_begin" /\ wpeCalls' = wpeCalls \cup {ki}
  /\ IF wpeCalls = {}
       THEN RemoveTemp(CpuArtifact)
       ELSE UNCHANGED tempVars
  /\ UNCHANGED <<static, captured, fsVars, cpuVars, tbFailed, panicked,
                 unwinding, logs, attempts, toolCalls, fi, ki, faults>>

\* one turn of the loop of helper.go:193-195
RP_NextProfile ==
  /\ pc = "rp_kinds"
  /\ IF ki > Len(EnabledProfilingTypes)
       THEN pc' = "rp_defers" /\ UNCHANGED wpeCalls
       ELSE pc' = "wpe_begin" /\ wpeCalls' = wpeCalls \cup {ki}
  /\ UNCHANGED <<static, captured, fsVars, tempVars, cpuVars, tbFailed, panicked,
                 unwinding, logs, attempts, toolCalls, fi, ki, faults>>

\* mutant: pprof.StopCPUProfile is deferred along with the removal, so it
\* runs on every return that follows the creation of the temp file
RP_Defers_StopDeferred ==
  /\ pc = "rp_defers"
  /\ RemoveTemp(CpuArtifact)
  /\ stopCalls' = stopCalls + 1
  /\ cpuProfiling' = "none"
  /\ panicked' = (unwinding = "panic")
  /\ pc' = "done"
  /\ UNCHANGED <<static, captured, fsVars, blockRate, mutexRate, workloadRuns,
                 startCalls, tbFailed, unwinding, logs, attempts, toolCalls,
                 wpeCalls, fi, ki, faults>>

\* the deferred cpuTempFile.Close() and os.Remove(cpuTempFile.Name())
RP_Defers ==
  /\ pc = "rp_defers"
  /\ RemoveTemp(CpuArtifact)
  /\ panicked' = (unwinding = "panic")
  /\ pc' = "done"
  /\ UNCHANGED <<static, captured, fsVars, cpuVars, tbFailed, unwinding, logs, attempts,
                 toolCalls, wpeCalls, fi, ki, faults>>

\* ---------------------------------------------------- WriteProfileAndExport
\* where control goes when WriteProfileAndExport returns normally
WPE_ReturnTo ==
  IF entry = "RunProfiling"
    THEN pc' = "rp_kinds" /\ ki' = ki + 1
    ELSE pc' = "done" /\ ki' = ki

WPE_CheckFormats ==
  /\ pc = "wpe_begin"
  /\ IF Len(ProfilingOutputFormats) = 0
       THEN /\ logs' = logs \cup {<<"skipping", EnabledProfilingTypes[ki], "">>}
            /\ WPE_ReturnTo
       ELSE /\ pc' = "wpe_temp"
            /\ UNCHANGED <<logs, ki>>
  /\ UNCHANGED <<static, captured, fsVars, tempVars, cpuVars, tbFailed, panicked,
                 unwinding, attempts, toolCalls, wpeCalls, fi, faults>>

\* os.CreateTemp("", profileType+".prof"); the defers follow a success
WPE_CreateTemp ==
  /\ pc = "wpe_temp"
  /\ \/ /\ created' = created \cup {SnapArtifact(ki)}
        /\ existing' = existing \cup {SnapArtifact(ki)}
        /\ pc' = "wpe_write"
        /\ UNCHANGED <<logs, ki, faults>>
     \/ /\ CanFault
        /\ faults' = faults + 1
        /\ logs' = logs \cup {<<"temp_failed", EnabledProfilingTypes[ki], "">>}
        /\ WPE_ReturnTo
        /\ UNCHANGED <<created, existing>>
  /\ UNCHANGED <<static, captured, fsVars, removes, cpuVars, tbFailed, panicked,
                 unwinding, attempts, toolCalls, wpeCalls, fi>>

\* mutant: the deferred Close and Remove are registered after the profile
\* write, so its error return leaves the temp artifact behind
WPE_WriteProfile_LeakOnError ==
  /\ pc = "wpe_write"
  /\ LET profileType == EnabledProfilingTypes[ki] IN
     IF profileType \notin KnownProfiles
       THEN /\ unwinding' = "panic"
            /\ pc' = "wpe_defers"
            /\ UNCHANGED <<logs, fi, ki, faults, captured>>
       ELSE \/ /\ CanFault
               /\ faults' = faults + 1
               /\ logs' = logs \cup {<<"profile_write_failed", profileType, "">>}
               /\ WPE_ReturnTo
               /\ UNCHANGED <<unwinding, fi, captured>>
            \/ /\ logs' = logs \cup {<<"profile_written", profileType, "">>}
               /\ captured' = captured \cup {ki}
               /\ fi' = 1
               /\ pc' = "wpe_export"
               /\ UNCHANGED <<unwinding, faults, ki>>
  /\ UNCHANGED <<static, fsVars, tempVars, cpuVars, tbFailed, panicked,
                 attempts, toolCalls, wpeCalls>>

\* pprof.Lookup(profileType).WriteTo(temporaryFile, 0): Lookup returns nil for
\* a name the registry lacks, and the method call on nil panics
WPE_WriteProfile ==
  /\ pc = "wpe_write"
  /\ LET profileType == EnabledProfilingTypes[ki] IN
     IF profileType \notin KnownProfiles
       THEN /\ unwinding' = "panic"
            /\ pc' = "wpe_defers"
            /\ UNCHANGED <<logs, fi, faults, captured>>
       ELSE \/ /\ CanFault
               /\ faults' = faults + 1
               /\ logs' = logs \cup {<<"profile_write_failed", profileType, "">>}
               /\ pc' = "wpe_defers"
               /\ UNCHANGED <<unwinding, fi, captured>>
            \/ /\ logs' = logs \cup {<<"profile_written", profileType, "">>}
               /\ captured' = captured \cup {ki}
               /\ fi' = 1
               /\ pc' = "wpe_export"
               /\ UNCHANGED <<unwinding, faults>>
  /\ UNCHANGED <<static, fsVars, tempVars, cpuVars, tbFailed, panicked,
                 attempts, toolCalls, wpeCalls, ki>>

\* one turn of the loop of helper.go:236-239
WPE_Export ==
  /\ pc = "wpe_export"
  /\ IF fi > Len(ProfilingOutputFormats)
       THEN /\ pc' = "wpe_defers"
            /\ UNCHANGED <<fi, exportVars>>
       ELSE LET format == ProfilingOutputFormats[fi]
                profileType == EnabledProfilingTypes[ki] IN
            /\ attempts' = attempts \cup {<<ki, fi>>}
            /\ GenerateGraph(SnapArtifact(ki), <<profileType, format>>, format)
            /\ fi' = fi + 1
            /\ pc' = "wpe_export"
  /\ UNCHANGED <<static, captured, dirVars, tempVars, cpuVars, tbFailed, panicked,
                 unwinding, wpeCalls, ki>>

\* the deferred temporaryFile.Close() and os.Remove(temporaryFile.Name())
WPE_Defers ==
  /\ pc = "wpe_defers"
  /\ RemoveTemp(SnapArtifact(ki))
  /\ IF unwinding = "panic"
       THEN IF entry = "RunProfiling"
              THEN pc' = "rp_defers" /\ UNCHANGED <<panicked, ki>>
              ELSE pc' = "done" /\ panicked' = TRUE /\ UNCHANGED ki
       ELSE WPE_ReturnTo /\ UNCHANGED panicked
  /\ UNCHANGED <<static, captured, fsVars, cpuVars, tbFailed, unwinding, logs, attempts,
                 toolCalls, wpeCalls, fi, faults>>

\* ------------------------------------------ direct MakeDirIfNotExists calls
\* the caller invokes it on the same path twice
MK_Direct ==
  /\ pc \in {"mk_first", "mk_second"}
  /\ \E ok \in BOOLEAN :
       LET d0 == [exists |-> dirExists, mode |-> dirMode]
           d1 == MakeDirIfNotExists(d0, ok)
       IN  /\ d0.exists => ok
           /\ ok \/ CanFault
           /\ faults' = IF ok THEN faults ELSE faults + 1
           /\ dirExists' = d1.exists
           /\ dirMode' = d1.mode
  /\ pc' = IF pc = "mk_first" THEN "mk_second" ELSE "done"
  /\ UNCHANGED <<static, captured, profileDir, files, tempVars, cpuVars, tbFailed,
                 panicked, unwinding, logs, attempts, toolCalls, wpeCalls, fi, ki>>

\* ------------------------------------------------- a direct GenerateGraph call
GG_Direct ==
  /\ pc = "gg_direct"
  /\ LET format == ProfilingOutputFormats[1]
         profileType == EnabledProfilingTypes[1] IN
     GenerateGraph(ExtArtifact, <<profileType, format>>, format)
  /\ attempts' = attempts \cup {<<1, 1>>}
  /\ pc' = "done"
  /\ UNCHANGED <<static, captured, dirVars, tempVars, cpuVars, tbFailed, panicked,
                 unwinding, wpeCalls, fi, ki>>

\* ------------------------------------------------------------------- Spec
Next ==
  \/ RP_CheckFormats
  \/ RP_PrepareDir
  \/ RP_CreateCPUTemp
  \/ RP_StartCPUProfile
  \/ RP_SetRates
  \/ RP_RunParallel
  \/ RP_StopCPUProfile
  \/ RP_ExportCPU
  \/ RP_NextProfile
  \/ RP_Defers
  \/ WPE_CheckFormats
  \/ WPE_CreateTemp
  \/ WPE_WriteProfile
  \/ WPE_Export
  \/ WPE_Defers
  \/ MK_Direct
  \/ GG_Direct

Spec == Init /\ [][Next]_vars

\* ------------------------------------------- the workload (helper.go:172-176)
\* The handler under test is the caller's; the one modelled stores its
\* worker's number under one context key (c.Set), reads the key back (c.Get)
\* and responds.  gin's Set allocates c.Keys when it is nil and guards the
\* store with the context's own mutex only.

\* RunProfiling has reached B.RunParallel
InitWorkload ==
  /\ entry = "RunProfiling"
  /\ tcName = <<"a", "b">>
  /\ FunctionName = <<>>
  /\ profileDir = GetProfileDir(tcName, FunctionName)
  /\ dirMode = Perm0755
  /\ pc = "rp_workload"
  /\ ProfilingOutputFormats = <<"png">>
  /\ EnabledProfilingTypes = <<>>
  /\ dirExists = TRUE
  /\ files = [p \in OutPaths |-> "absent"]
  /\ created = {CpuArtifact}
  /\ existing = {CpuArtifact}
  /\ removes = [a \in Artifacts |-> 0]
  /\ cpuProfiling = "run"
  /\ blockRate = 1
  /\ mutexRate = 1
  /\ workloadRuns = 0
  /\ startCalls = 1
  /\ stopCalls = 0
  /\ tbFailed = FALSE
  /\ panicked = FALSE
  /\ unwinding = "none"
  /\ logs = {}
  /\ attempts = {}
  /\ toolCalls = {}
  /\ wpeCalls = {}
  /\ captured = {}
  /\ fi = 1
  /\ ki = 1
  /\ faults = 0
  \* the test case's ContextKeys: unset, or a map of the caller
  /\ ContextKeys \in {"nil", "tcmap"}
  /\ tcmap = 0
  /\ hashWriting = {}
  /\ itersLeft = BenchN
  /\ wpc = [w \in Workers |-> "next"]
  /\ ctxKeys = [w \in Workers |-> "nil"]
  /\ ownmap = [w \in Workers |-> 0]
  /\ got = [w \in Workers |-> 0]
  /\ crashed = FALSE
  /\ SingleIdle
  /\ HelpersIdle

\* what ExecuteHandler puts in ctx.Keys (helper.go:99)
ContextKeysOf(tcKeys) == tcKeys

\* pb.Next()
W_Next(w) ==
  /\ ~crashed
  /\ wpc[w] = "next"
  /\ IF itersLeft > 0
       THEN itersLeft' = itersLeft - 1 /\ wpc' = [wpc EXCEPT ![w] = "build"]
       ELSE itersLeft' = itersLeft /\ wpc' = [wpc EXCEPT ![w] = "exit"]
  /\ UNCHANGED <<pipelineVars, singleVars, ContextKeys, tcmap, hashWriting,
                 ctxKeys, ownmap, got, crashed>>

\* ExecuteHandler up to the handler call: a new request, recorder, context
\* and parameter list; ctx.Keys = tc.ContextKeys
W_Build(w) ==
  /\ ~crashed
  /\ wpc[w] = "build"
  /\ ctxKeys' = [ctxKeys EXCEPT ![w] = ContextKeysOf(ContextKeys)]
  /\ ownmap' = [ownmap EXCEPT ![w] = 0]
  /\ got' = [got EXCEPT ![w] = 0]
  /\ wpc' = [wpc EXCEPT ![w] = "set"]
  /\ UNCHANGED <<pipelineVars, singleVars, ContextKeys, tcmap, hashWriting,
                 itersLeft, crashed>>

\* the handler's c.Set: the map store begins.  A store into a map another
\* worker is writing is a data race: the runtime throws, or misses it.
W_SetBegin(w) ==
  /\ ~crashed
  /\ wpc[w] = "set"
  /\ IF ctxKeys[w] = "nil"
       THEN /\ ctxKeys' = [ctxKeys EXCEPT ![w] = "own"]
            /\ ownmap' = [ownmap EXCEPT ![w] = w]
            /\ wpc' = [wpc EXCEPT ![w] = "get"]
            /\ UNCHANGED <<hashWriting, crashed>>
       ELSE /\ \/ /\ hashWriting # {}
                  /\ crashed' = TRUE
                  /\ UNCHANGED <<hashWriting, wpc>>
               \/ /\ hashWriting' = hashWriting \cup {w}
                  /\ wpc' = [wpc EXCEPT ![w] = "store"]
                  /\ UNCHANGED crashed
            /\ UNCHANGED <<ctxKeys, ownmap>>
  /\ UNCHANGED <<pipelineVars, singleVars, ContextKeys, tcmap, itersLeft, got>>

\* the store into the caller's map lands
W_SetEnd(w) ==
  /\ ~crashed
  /\ wpc[w] = "store"
  /\ tcmap' = w
  /\ hashWriting' = hashWriting \ {w}
  /\ wpc' = [wpc EXCEPT ![w] = "get"]
  /\ UNCHANGED <<pipelineVars, singleVars, ContextKeys, itersLeft, ctxKeys,
                 ownmap, got, crashed>>

\* the handler's c.Get
W_Get(w) ==
  /\ ~crashed
  /\ wpc[w] = "get"
  /\ \/ /\ ctxKeys[w] = "tcmap"
        /\ hashWriting # {}
        /\ crashed' = TRUE
        /\ UNCHANGED <<got, wpc>>
     \/ /\ got' = [got EXCEPT ![w] = IF ctxKeys[w] = "own" THEN ownmap[w] ELSE tcmap]
        /\ wpc' = [wpc EXCEPT ![w] = "respond"]
        /\ UNCHANGED crashed
  /\ UNCHANGED <<pipelineVars, singleVars, ContextKeys, tcmap, hashWriting,
                 itersLeft, ctxKeys, ownmap>>

\* the handler writes its response and ExecuteHandler returns the recorder
W_Respond(w) ==
  /\ ~crashed
  /\ wpc[w] = "respond"
  /\ wpc' = [wpc EXCEPT ![w] = "next"]
  /\ UNCHANGED <<pipelineVars, singleVars, ContextKeys, tcmap, hashWriting,
                 itersLeft, ctxKeys, ownmap, got, crashed>>

NextWorkload ==
  \/ \E w \in Workers : W_Next(w)
  \/ \E w \in Workers : W_Build(w)
  \/ \E w \in Workers : W_SetBegin(w)
  \/ \E w \in Workers : W_SetEnd(w)
  \/ \E w \in Workers : W_Get(w)
  \/ \E w \in Workers : W_Respond(w)

SpecWorkload == InitWorkload /\ [][NextWorkload]_vars

\* ------------------------------------------------ RunSingle (helper.go:56-73)
InitSingle ==
  /\ entry = "RunSingle"
  /\ tcName = <<"a", "b">>
  /\ FunctionName = <<>>
  /\ profileDir = <<>>
  /\ pc = "done"
  /\ ProfilingOutputFormats = <<"png">>
  /\ EnabledProfilingTypes = <<>>
  /\ dirExists = FALSE
  /\ dirMode = 0
  /\ files = [p \in OutPaths |-> "absent"]
  /\ created = {}
  /\ existing = {}
  /\ removes = [a \in Artifacts |-> 0]
  /\ cpuProfiling = "none"
  /\ blockRate = 0
  /\ mutexRate = 0
  /\ workloadRuns = 0
  /\ startCalls = 0
  /\ stopCalls = 0
  /\ tbFailed = FALSE
  /\ panicked = FALSE
  /\ unwinding = "none"
  /\ logs = {}
  /\ attempts = {}
  /\ toolCalls = {}
  /\ wpeCalls = {}
  /\ captured = {}
  /\ fi = 1
  /\ ki = 1
  /\ faults = 0
  /\ WorkloadIdle
  /\ HelpersIdle
  \* the handler and the expectation of the test case
  /\ body \in Bodies
  /\ ExpectedCode \in Codes
  /\ LogResponse \in BOOLEAN
  /\ spc = "execute"
  /\ recorder = "unset"
  /\ outer = ZeroOuter
  /\ tLogged = FALSE
  /\ verdict = "running"

\* encoding/json on one member value of the outer object, decoded into a Resp:
\* null leaves the zero Resp, an object fills Code from an integer "code",
\* anything else is an UnmarshalTypeError
ValueErr(v) ==
  \/ v.t = "string"
  \/ v.t = "object" /\ v.codeT = "other"

\* json.Unmarshal(recorder.Body.Bytes(), &outer) with outer a map[string]Resp
Unmarshal(b) ==
  CASE b.kind \in {"invalid", "scalar"} -> [ZeroOuter EXCEPT !.err = TRUE]
    [] b.kind = "null" -> ZeroOuter
    [] OTHER ->
       [err |-> \E k \in JsonKeys : ValueErr(b.fields[k]),
        present |-> {k \in JsonKeys : b.fields[k].t # "absent"},
        Code |-> [k \in JsonKeys |->
                    IF b.fields[k].t = "object" /\ b.fields[k].codeT = "int"
                      THEN b.fields[k].code ELSE 0]]

\* mutant: the ok of the lookup is not required
LookupNoOk(o) == [ok |-> TRUE, Code |-> o.Code["response"]]
\* resp, ok := outer["response"]
Lookup(o) == [ok |-> "response" \in o.present, Code |-> o.Code["response"]]

\* recorder := tc.ExecuteHandler()
RS_ExecuteHandler ==
  /\ spc = "execute"
  /\ recorder' = body
  /\ spc' = "log"
  /\ UNCHANGED <<pipelineVars, workloadVars, body, ExpectedCode, LogResponse,
                 outer, tLogged, verdict>>

RS_LogResponse ==
  /\ spc = "log"
  /\ tLogged' = LogResponse
  /\ spc' = "unmarshal"
  /\ UNCHANGED <<pipelineVars, workloadVars, body, ExpectedCode, LogResponse,
                 recorder, outer, verdict>>

\* json.Unmarshal and require.NoError
RS_Unmarshal ==
  /\ spc = "unmarshal"
  /\ outer' = Unmarshal(recorder)
  /\ IF outer'.err
       THEN verdict' = "fail_unmarshal" /\ spc' = "done"
       ELSE verdict' = verdict /\ spc' = "lookup"
  /\ UNCHANGED <<pipelineVars, workloadVars, body, ExpectedCode, LogResponse,
                 recorder, tLogged>>

\* the map lookup and require.True
RS_RequireKey ==
  /\ spc = "lookup"
  /\ IF Lookup(outer).ok
       THEN verdict' = verdict /\ spc' = "equal"
       ELSE verdict' = "fail_missing_key" /\ spc' = "done"
  /\ UNCHANGED <<pipelineVars, workloadVars, body, ExpectedCode, LogResponse,
                 recorder, outer, tLogged>>

\* require.Equal(tc.T, tc.ExpectedCode, resp.Code)
RS_RequireEqual ==
  /\ spc = "equal"
  /\ verdict' = IF Lookup(outer).Code = ExpectedCode THEN "pass" ELSE "fail_not_equal"
  /\ spc' = "done"
  /\ UNCHANGED <<pipelineVars, workloadVars, body, ExpectedCode, LogResponse,
                 recorder, outer, tLogged>>

NextSingle ==
  \/ RS_ExecuteHandler
  \/ RS_LogResponse
  \/ RS_Unmarshal
  \/ RS_RequireKey
  \/ RS_RequireEqual

SpecSingle == InitSingle /\ [][NextSingle]_vars

\* ------------------------------------ the UUID helpers (helper.go:263-304)
\* leading bytes of an identifier that are varied; the others are fixed
UuidVaried == 2

LowerHex == <<"0", "1", "2", "3", "4", "5", "6", "7", "8", "9",
              "a", "b", "c", "d", "e", "f">>
UpperHex == <<"0", "1", "2", "3", "4", "5", "6", "7", "8", "9",
              "A", "B", "C", "D", "E", "F">>
\* the alphabet of base64.StdEncoding
B64Alphabet ==
  <<"A", "B", "C", "D", "E", "F", "G", "H", "I", "J", "K", "L", "M",
    "N", "O", "P", "Q", "R", "S", "T", "U", "V", "W", "X", "Y", "Z",
    "a", "b", "c", "d", "e", "f", "g", "h", "i", "j", "k", "l", "m",
    "n", "o", "p", "q", "r", "s", "t", "u", "v", "w", "x", "y", "z",
    "0", "1", "2", "3", "4", "5", "6", "7", "8", "9", "+", "/">>
BinDataPrefix == <<"B", "i", "n", "D", "a", "t", "a", "(", "0", ",", " ", "'">>
BinDataSuffix == <<"'", ")">>

\* the position of c in alphabet, 0 when it is not there
IndexOf(alphabet, c) ==
  IF \E i \in DOMAIN alphabet : alphabet[i] = c
    THEN CHOOSE i \in DOMAIN alphabet : alphabet[i] = c
    ELSE 0

\* encoding/hex: a digit's value in either letter case, -1 for another character
FromHexChar(c) ==
  IF IndexOf(LowerHex, c) > 0 THEN IndexOf(LowerHex, c) - 1
  ELSE IF IndexOf(UpperHex, c) > 0 THEN IndexOf(UpperHex, c) - 1
  ELSE -1

\* hex.DecodeString: an error for an odd length or a character that is no digit
DecodeHexString(str) ==
  [err |-> \/ Len(str) % 2 = 1
           \/ \E i \in DOMAIN str : FromHexChar(str[i]) < 0,
   bytes |-> [i \in 1..(Len(str) \div 2) |->
                16 * FromHexChar(str[2 * i - 1]) + FromHexChar(str[2 * i])]]

\* the verb %x on a byte slice: two lower-case digits per byte
SprintfHex(bytes) ==
  [i \in 1..(2 * Len(bytes)) |->
     IF i % 2 = 1 THEN LowerHex[(bytes[(i + 1) \div 2] \div 16) + 1]
                  ELSE LowerHex[(bytes[i \div 2] % 16) + 1]]

\* base64.StdEncoding.EncodeToString: three bytes to four characters, the last
\* group padded with "="
RECURSIVE EncodeToString(_)
EncodeToString(src) ==
  LET A == B64Alphabet IN
  IF Len(src) = 0 THEN <<>>
  ELSE IF Len(src) = 1
    THEN <<A[(src[1] \div 4) + 1], A[(src[1] % 4) * 16 + 1], "=", "=">>
  ELSE IF Len(src) = 2
    THEN <<A[(src[1] \div 4) + 1],
           A[(src[1] % 4) * 16 + (src[2] \div 16) + 1],
           A[(src[2] % 16) * 4 + 1], "=">>
  ELSE <<A[(src[1] \div 4) + 1],
         A[(src[1] % 4) * 16 + (src[2] \div 16) + 1],
         A[(src[2] % 16) * 4 + (src[3] \div 64) + 1],
         A[(src[3] % 64) + 1]>>
       \o EncodeToString(SubSeq(src, 4, Len(src)))

\* base64.StdEncoding.DecodeString: groups of four characters of the
\* alphabet, "=" only as the last one or two characters of the last group
RECURSIVE DecodeString(_)
DecodeString(str) ==
  LET v(i) == IndexOf(B64Alphabet, str[i]) - 1
      last == Len(str) = 4
      pad == IF last /\ str[4] = "=" THEN (IF str[3] = "=" THEN 2 ELSE 1) ELSE 0
      rest == DecodeString(SubSeq(str, 5, Len(str)))
  IN  IF Len(str) = 0 THEN [err |-> FALSE, bytes |-> <<>>]
      ELSE IF Len(str) < 4 THEN [err |-> TRUE, bytes |-> <<>>]
      ELSE IF \E i \in 1..(4 - pad) : v(i) < 0 THEN [err |-> TRUE, bytes |-> <<>>]
      ELSE IF rest.err THEN [err |-> TRUE, bytes |-> <<>>]
      ELSE [err |-> FALSE,
            bytes |-> SubSeq(<<v(1) * 4 + (v(2) \div 16),
                               (v(2) % 16) * 16 + (IF pad = 2 THEN 0 ELSE v(3) \div 4),
                               (IF pad = 2 THEN 0 ELSE (v(3) % 4) * 64)
                                  + (IF pad >= 1 THEN 0 ELSE v(4))>>,
                             1, 3 - pad)
                      \o rest.bytes]

HasPrefix(str, prefix) ==
  Len(str) >= Len(prefix) /\ SubSeq(str, 1, Len(prefix)) = prefix
HasSuffix(str, suffix) ==
  Len(str) >= Len(suffix)
    /\ SubSeq(str, Len(str) - Len(suffix) + 1, Len(str)) = suffix
TrimPrefix(str, prefix) ==
  IF Len(str) >= Len(prefix) /\ SubSeq(str, 1, Len(prefix)) = prefix
    THEN SubSeq(str, Len(prefix) + 1, Len(str))
    ELSE str
TrimSuffix(str, suffix) ==
  IF Len(str) >= Len(suffix)
       /\ SubSeq(str, Len(str) - Len(suffix) + 1, Len(str)) = suffix
    THEN SubSeq(str, 1, Len(str) - Len(suffix))
    ELSE str

\* mutant: the hyphens stay in the string handed to hex.DecodeString
GetBsonIdFromUUId_KeepHyphens(uuidStr) ==
  LET uuidBytes == DecodeHexString(uuidStr) IN
  IF uuidBytes.err THEN <<>>
  ELSE BinDataPrefix \o EncodeToString(uuidBytes.bytes) \o BinDataSuffix

\* the empty string for a string that is no hex; no test of the length
GetBsonIdFromUUId(uuidStr) ==
  LET uuidHex == ReplaceAll(uuidStr, "-", "")
      uuidBytes == DecodeHexString(uuidHex)
  IN  IF uuidBytes.err THEN <<>>
      ELSE BinDataPrefix \o EncodeToString(uuidBytes.bytes) \o BinDataSuffix

\* mutant: the wrapper is tested for its suffix only
GetStringUUidFromBsonId_SuffixOnly(id) ==
  IF ~HasSuffix(id, BinDataSuffix)
    THEN [uuidStr |-> <<>>, err |-> "invalid BinData format"]
  ELSE LET base64Str == TrimSuffix(TrimPrefix(id, BinDataPrefix), BinDataSuffix)
           uuidBytes == DecodeString(base64Str)
       IN  IF uuidBytes.err
             THEN [uuidStr |-> <<>>, err |-> "illegal base64 data"]
           ELSE IF Len(uuidBytes.bytes) # 16
             THEN [uuidStr |-> <<>>, err |-> "invalid UUID byte length"]
           ELSE [uuidStr |-> SprintfHex(SubSeq(uuidBytes.bytes, 1, 4)) \o <<"-">>
                             \o SprintfHex(SubSeq(uuidBytes.bytes, 5, 6)) \o <<"-">>
                             \o SprintfHex(SubSeq(uuidBytes.bytes, 7, 8)) \o <<"-">>
                             \o SprintfHex(SubSeq(uuidBytes.bytes, 9, 10)) \o <<"-">>
                             \o SprintfHex(SubSeq(uuidBytes.bytes, 11, 16)),
                 err |-> "nil"]

\* the named results (uuidStr, err) of GetStringUUidFromBsonId
GetStringUUidFromBsonId(id) ==
  IF ~HasPrefix(id, BinDataPrefix) \/ ~HasSuffix(id, BinDataSuffix)
    THEN [uuidStr |-> <<>>, err |-> "invalid BinData format"]
  ELSE LET base64Str == TrimSuffix(TrimPrefix(id, BinDataPrefix), BinDataSuffix)
           uuidBytes == DecodeString(base64Str)
       IN  IF uuidBytes.err
             THEN [uuidStr |-> <<>>, err |-> "illegal base64 data"]
           ELSE IF Len(uuidBytes.bytes) # 16
             THEN [uuidStr |-> <<>>, err |-> "invalid UUID byte length"]
           ELSE [uuidStr |-> SprintfHex(SubSeq(uuidBytes.bytes, 1, 4)) \o <<"-">>
                             \o SprintfHex(SubSeq(uuidBytes.bytes, 5, 6)) \o <<"-">>
                             \o SprintfHex(SubSeq(uuidBytes.bytes, 7, 8)) \o <<"-">>
                             \o SprintfHex(SubSeq(uuidBytes.bytes, 9, 10)) \o <<"-">>
                             \o SprintfHex(SubSeq(uuidBytes.bytes, 11, 16)),
                 err |-> "nil"]

\* --- the strings a caller hands to GetBsonIdFromUUId
\* identifiers of n bytes: the leading UuidVaried bytes vary, byte i of the
\* rest is 17 * i (a pair of equal digits)
ByteSeqs(n) ==
  {[i \in 1..n |-> IF i \in DOMAIN lead THEN lead[i] ELSE (17 * i) % 256] :
     lead \in [1..(IF n < UuidVaried THEN n ELSE UuidVaried) -> {0, 171, 254}]}
\* hex digits of the bytes in lower case, in upper case, or alternating
HexOf(bytes, case) ==
  LET lower == SprintfHex(bytes) IN
  [i \in DOMAIN lower |->
     IF case = "upper" \/ (case = "mixed" /\ i % 2 = 1)
       THEN UpperHex[IndexOf(LowerHex, lower[i])]
       ELSE lower[i]]
\* the hyphens of the 8-4-4-4-12 layout, as far as the string reaches
RECURSIVE Hyphenate(_, _)
Hyphenate(hex, groups) ==
  IF groups = <<>> \/ Len(hex) <= Head(groups) THEN hex
  ELSE SubSeq(hex, 1, Head(groups)) \o <<"-">>
       \o Hyphenate(SubSeq(hex, Head(groups) + 1, Len(hex)), Tail(groups))
UuidInputs ==
  LET hexes == {HexOf(b, c) : b \in UNION {ByteSeqs(n) : n \in {0, 1, 15, 16, 17}},
                              c \in {"lower", "upper", "mixed"}}
  IN  {Hyphenate(h, <<8, 4, 4, 4>>) : h \in hexes}
      \cup hexes
      \cup {SubSeq(h, 1, Len(h) - 1) : h \in hexes \ {<<>>}}
      \cup {<<"g">> \o Tail(h) : h \in hexes \ {<<>>}}

InitUUID ==
  /\ entry = "GetBsonIdFromUUId"
  /\ ProfilingIdle
  /\ WorkloadIdle
  /\ SingleIdle
  /\ BenchIdle
  /\ TwoRunsIdle
  /\ uuidIn \in UuidInputs
  /\ binData = <<>>
  /\ bsonID = <<>>
  /\ uuidOut = <<>>
  /\ uuidErr = "nil"
  /\ upc = "encode"

\* binData := GetBsonIdFromUUId(uuidIn)
U_Encode ==
  /\ upc = "encode"
  /\ binData' = GetBsonIdFromUUId(uuidIn)
  /\ upc' = "pass"
  /\ UNCHANGED <<notUuidVars, uuidIn, bsonID, uuidOut, uuidErr>>

\* the caller hands the string on as it is, or without its prefix, without
\* its suffix, with a payload that lost its last character or whose first
\* character is outside the alphabet, or the wrapper with prefix and suffix
\* sharing the quote
U_Pass ==
  /\ upc = "pass"
  /\ LET payload == TrimSuffix(TrimPrefix(binData, BinDataPrefix), BinDataSuffix)
     IN  bsonID' \in
           {binData,
            TrimPrefix(binData, BinDataPrefix),
            TrimSuffix(binData, BinDataSuffix),
            BinDataPrefix \o <<")">>}
           \cup (IF payload = <<>> THEN {}
                 ELSE {BinDataPrefix \o SubSeq(payload, 1, Len(payload) - 1)
                         \o BinDataSuffix,
                       BinDataPrefix \o <<"*">> \o Tail(payload) \o BinDataSuffix})
  /\ upc' = "decode"
  /\ UNCHANGED <<notUuidVars, uuidIn, binData, uuidOut, uuidErr>>

\* uuidOut, uuidErr := GetStringUUidFromBsonId(bsonID)
U_Decode ==
  /\ upc = "decode"
  /\ uuidOut' = GetStringUUidFromBsonId(bsonID).uuidStr
  /\ uuidErr' = GetStringUUidFromBsonId(bsonID).err
  /\ upc' = "done"
  /\ UNCHANGED <<notUuidVars, uuidIn, binData, bsonID>>

NextUUID ==
  \/ U_Encode
  \/ U_Pass
  \/ U_Decode

SpecUUID == InitUUID /\ [][NextUUID]_vars

\* ------------------------------------------- RunBenchmark (helper.go:130-137)
\* invocations of the sub-benchmark body by the host in one RunBenchmark call
BenchRuns == 3

InitBench ==
  /\ entry = "RunBenchmark"
  /\ ProfilingIdle
  /\ WorkloadIdle
  /\ SingleIdle
  /\ UuidIdle
  /\ TwoRunsIdle
  \* the iteration count of the benchmark RunBenchmark is called from
  /\ tcBN \in 1..BenchN
  /\ bN = 0
  /\ bi = 0
  /\ handlerCalls = 0
  /\ benchLog = <<>>
  /\ bpc = "run"

\* tc.B.Run: the host invokes the body with a b.N of its choice, first to
\* probe, then with the counts its timing asks for
B_Invoke ==
  /\ bpc = "run"
  /\ Len(benchLog) < BenchRuns
  /\ bN' \in 1..(BenchN + 1)
  /\ bi' = 0
  /\ handlerCalls' = 0
  /\ bpc' = "loop"
  /\ UNCHANGED <<notBenchVars, tcBN, benchLog>>

\* for i := 0; i < tc.B.N; i++ { tc.ExecuteHandler() }: one test of the
\* condition, and the body or the return of the closure
B_Loop ==
  /\ bpc = "loop"
  /\ IF bi < tcBN
       THEN /\ handlerCalls' = handlerCalls + 1
            /\ bi' = bi + 1
            /\ UNCHANGED <<bpc, benchLog>>
       ELSE /\ benchLog' = Append(benchLog, <<bN, handlerCalls>>)
            /\ bpc' = "run"
            /\ UNCHANGED <<handlerCalls, bi>>
  /\ UNCHANGED <<notBenchVars, tcBN, bN>>

\* the host has what it needs: tc.B.Run returns
B_Done ==
  /\ bpc = "run"
  /\ Len(benchLog) >= 1
  /\ bpc' = "done"
  /\ UNCHANGED <<notBenchVars, tcBN, bN, bi, handlerCalls, benchLog>>

NextBench ==
  \/ B_Invoke
  \/ B_Loop
  \/ B_Done

SpecBench == InitBench /\ [][NextBench]_vars

\* ------------- two overlapping RunProfiling calls (helper.go:157-179, 196)
\* Each call has its own test case, tc.B and temp file; the CPU session, held
\* in cpuProfiling by the name of the call whose start succeeded, and the
\* sampling rates are the process's.
InitTwoRuns ==
  /\ entry = "RunProfiling"
  /\ ProfilingIdle
  /\ WorkloadIdle
  /\ SingleIdle
  /\ UuidIdle
  /\ BenchIdle
  /\ rpc = [r \in Runs |-> "cputemp"]
  /\ rStarted = [r \in Runs |-> FALSE]
  /\ rFailed = [r \in Runs |-> "none"]
  /\ rStops = [r \in Runs |-> 0]
  /\ rLeft = [r \in Runs |-> BenchN]
  /\ rSampled = [r \in Runs |-> 0]

\* os.CreateTemp + require.NoError
R_CreateCPUTemp(r) ==
  /\ rpc[r] = "cputemp"
  /\ \/ rpc' = [rpc EXCEPT ![r] = "start"] /\ UNCHANGED rFailed
     \/ /\ rFailed' = [rFailed EXCEPT ![r] = "CreateTemp"]
        /\ rpc' = [rpc EXCEPT ![r] = "done"]
  /\ UNCHANGED <<notSessionVars, cpuVars, rStarted, rStops, rLeft, rSampled>>

\* mutant: the error of pprof.StartCPUProfile is not required to be nil
R_StartCPUProfile_IgnoreErr(r) ==
  /\ rpc[r] = "start"
  /\ IF cpuProfiling = "none"
       THEN /\ cpuProfiling' = r
            /\ startCalls' = startCalls + 1
            /\ rStarted' = [rStarted EXCEPT ![r] = TRUE]
       ELSE UNCHANGED <<cpuProfiling, startCalls, rStarted>>
  /\ rpc' = [rpc EXCEPT ![r] = "rates"]
  /\ UNCHANGED <<notSessionVars, blockRate, mutexRate, workloadRuns, stopCalls,
                 rFailed, rStops, rLeft, rSampled>>

\* pprof.StartCPUProfile + require.NoError: the runtime refuses a second
\* session, and FailNow ends the call through its deferred functions
R_StartCPUProfile(r) ==
  /\ rpc[r] = "start"
  /\ IF cpuProfiling = "none"
       THEN /\ cpuProfiling' = r
            /\ startCalls' = startCalls + 1
            /\ rStarted' = [rStarted EXCEPT ![r] = TRUE]
            /\ rpc' = [rpc EXCEPT ![r] = "rates"]
            /\ UNCHANGED rFailed
       ELSE /\ rFailed' = [rFailed EXCEPT ![r] = "StartCPUProfile"]
            /\ rpc' = [rpc EXCEPT ![r] = "defers"]
            /\ UNCHANGED <<cpuProfiling, startCalls, rStarted>>
  /\ UNCHANGED <<notSessionVars, blockRate, mutexRate, workloadRuns, stopCalls,
                 rStops, rLeft, rSampled>>

R_SetRates(r) ==
  /\ rpc[r] = "rates"
  /\ blockRate' = 1
  /\ mutexRate' = 1
  /\ rpc' = [rpc EXCEPT ![r] = "workload"]
  /\ UNCHANGED <<notSessionVars, cpuProfiling, workloadRuns, startCalls,
                 stopCalls, rStarted, rFailed, rStops, rLeft, rSampled>>

\* tc.B.RunParallel: one iteration of the workload, sampled into the call's
\* profile when the session that is on is its own; RunParallel returns after
\* the last one
R_RunParallel(r) ==
  /\ rpc[r] = "workload"
  /\ IF rLeft[r] > 0
       THEN /\ rLeft' = [rLeft EXCEPT ![r] = @ - 1]
            /\ rSampled' = [rSampled EXCEPT ![r] =
                              IF cpuProfiling = r THEN @ + 1 ELSE @]
            /\ UNCHANGED <<rpc, workloadRuns>>
       ELSE /\ rpc' = [rpc EXCEPT ![r] = "stop"]
            /\ workloadRuns' = workloadRuns + 1
            /\ UNCHANGED <<rLeft, rSampled>>
  /\ UNCHANGED <<notSessionVars, cpuProfiling, blockRate, mutexRate, startCalls,
                 stopCalls, rStarted, rFailed, rStops>>

\* pprof.StopCPUProfile ends the session that is on, whoever started it
R_StopCPUProfile(r) ==
  /\ rpc[r] = "stop"
  /\ cpuProfiling' = "none"
  /\ stopCalls' = stopCalls + 1
  /\ rStops' = [rStops EXCEPT ![r] = @ + 1]
  /\ rpc' = [rpc EXCEPT ![r] = "export"]
  /\ UNCHANGED <<notSessionVars, blockRate, mutexRate, workloadRuns, startCalls,
                 rStarted, rFailed, rLeft, rSampled>>

\* the exports of the call, from and to files of its own
R_Export(r) ==
  /\ rpc[r] = "export"
  /\ rpc' = [rpc EXCEPT ![r] = "defers"]
  /\ UNCHANGED <<notSessionVars, cpuVars, rStarted, rFailed, rStops, rLeft,
                 rSampled>>

\* the deferred removal of the call's temp file, and its return
R_Return(r) ==
  /\ rpc[r] = "defers"
  /\ rpc' = [rpc EXCEPT ![r] = "done"]
  /\ UNCHANGED <<notSessionVars, cpuVars, rStarted, rFailed, rStops, rLeft,
                 rSampled>>

NextTwoRuns ==
  \/ \E r \in Runs : R_CreateCPUTemp(r)
  \/ \E r \in Runs : R_StartCPUProfile(r)
  \/ \E r \in Runs : R_SetRates(r)
  \/ \E r \in Runs : R_RunParallel(r)
  \/ \E r \in Runs : R_StopCPUProfile(r)
  \/ \E r \in Runs : R_Export(r)
  \/ \E r \in Runs : R_Return(r)

SpecTwoRuns == InitTwoRuns /\ [][NextTwoRuns]_vars

\* ===================================================================== claims

\* C1: with an empty output-format set, RunProfiling and a direct
\* WriteProfileAndExport are no-ops whatever EnabledProfilingTypes holds: no
\* step of the call creates the directory or a temp artifact, starts a CPU
\* session, runs the workload, calls GenerateGraph or writes a file.
C1_EmptyFormatsNoOp ==
  [][(Len(ProfilingOutputFormats) = 0
        /\ entry \in {"RunProfiling", "WriteProfileAndExport"})
      => /\ UNCHANGED <<dirExists, files, created, existing, removes>>
         /\ UNCHANGED <<cpuProfiling, blockRate, mutexRate, workloadRuns, startCalls>>
         /\ UNCHANGED <<attempts, toolCalls, wpeCalls, tbFailed>>
         /\ pc' = "done"]_vars

C1_Witness ==
  /\ pc = "done"
  /\ entry = "RunProfiling"
  /\ Len(ProfilingOutputFormats) = 0
  /\ Len(EnabledProfilingTypes) = MaxKinds
  /\ ~dirExists

\* WriteProfileAndExport is running for EnabledProfilingTypes[i]
InWriter(i) ==
  /\ ki = i
  /\ pc \in {"wpe_begin", "wpe_temp", "wpe_write", "wpe_export", "wpe_defers"}

\* C2: every temp artifact that was created (the CPU temp file, the temp file
\* of each WriteProfileAndExport call) has been removed exactly once when the
\* call that created it has ended, whichever way it ended; nothing is removed
\* twice, and nothing is removed that was not created.
C2_TempsDeletedOnce ==
  /\ \A a \in Artifacts \ {ExtArtifact} :
        /\ removes[a] <= 1
        /\ removes[a] = 1 => a \in created /\ a \notin existing
  /\ \A i \in 1..MaxKinds :
        (SnapArtifact(i) \in created /\ ~InWriter(i)) => removes[SnapArtifact(i)] = 1
  /\ pc = "done" => \A a \in created : removes[a] = 1

C2_Witness ==
  /\ pc = "done"
  /\ entry = "RunProfiling"
  /\ removes[CpuArtifact] = 1
  /\ removes[SnapArtifact(1)] = 1
  /\ <<"profile_write_failed", "heap", "">> \in logs
  /\ \E f \in FormatUniverse : <<"write_failed", "cpu", f>> \in logs

\* C3: a run whose format list holds an unsupported format logs it, writes no
\* file for it, still exports every supported format for the CPU profile and
\* still hands every enabled kind to the profile writer.
C3_UnsupportedFormatSkipped ==
  (/\ pc = "done"
   /\ entry = "RunProfiling"
   /\ ~tbFailed
   /\ ~panicked
   /\ \E i \in DOMAIN ProfilingOutputFormats :
         ProfilingOutputFormats[i] \notin {"png", "pdf"})
  => /\ \A i \in DOMAIN ProfilingOutputFormats :
          IF ProfilingOutputFormats[i] \in {"png", "pdf"}
            THEN <<0, i>> \in attempts
            ELSE /\ <<"invalid_format", "cpu", ProfilingOutputFormats[i]>> \in logs
                 /\ files[<<"cpu", ProfilingOutputFormats[i]>>] \in {"absent", "old"}
     /\ wpeCalls = DOMAIN EnabledProfilingTypes

\* C4: GenerateGraph never runs the rendering tool, and never writes the
\* destination, for a format other than "png" and "pdf".
C4_ExporterRejectsUnsupported ==
  /\ \A c \in toolCalls : c[2] \in {"png", "pdf"}
  /\ \A p \in OutPaths : p[2] \notin {"png", "pdf"} => files[p] \in {"absent", "old"}

\* C5: a capture failure of one snapshot kind never panics, and the run still
\* hands every later kind to the profile writer.
C5_CaptureFailureContained ==
  /\ ~panicked
  /\ (/\ pc = "done"
      /\ entry = "RunProfiling"
      /\ ~tbFailed
      /\ \A i \in DOMAIN ProfilingOutputFormats :
            ProfilingOutputFormats[i] \in {"png", "pdf"}
      /\ Len(ProfilingOutputFormats) > 0)
     => wpeCalls = DOMAIN EnabledProfilingTypes

C7_CPUStartFailureAborts ==
  /\ tbFailed =>
        /\ workloadRuns = 0 /\ stopCalls = 0
        /\ blockRate = 0 /\ mutexRate = 0
        /\ attempts = {} /\ toolCalls = {} /\ wpeCalls = {}
        /\ pc \in {"rp_defers", "done"}
  /\ (/\ entry = "RunProfiling"
      /\ Len(ProfilingOutputFormats) > 0
      /\ pc \notin {"rp_begin", "rp_mkdir", "rp_cputemp", "rp_start"}
      /\ (cpuProfiling = "other" \/ CpuArtifact \notin created))
     => tbFailed

C7_Witness ==
  /\ pc = "done"
  /\ tbFailed
  /\ cpuProfiling = "other"
  /\ removes[CpuArtifact] = 1
  /\ Len(EnabledProfilingTypes) > 0

\* C10: no GenerateGraph call leaves a destination partially written: every
\* step leaves each output path as it was or holding the complete render.
C10_NeverPartiallyWritten ==
  [][\A p \in OutPaths : files'[p] = files[p] \/ files'[p] = "complete"]_vars

\* worker w is between the construction of its context and its response
InHandler(w) == wpc[w] \in {"set", "store", "get", "respond"}

\* C8: the parallel workers of the workload share no mutable state: no two
\* contexts hold the same key-value store, a handler reads back the value it
\* stored itself, the runtime never throws on a concurrent map access, and the
\* caller's ContextKeys map keeps its content.
C8_WorkersShareNothing ==
  /\ ~crashed
  /\ tcmap = 0
  /\ \A w \in Workers : wpc[w] = "respond" => got[w] = w
  /\ \A w, v \in Workers :
        (w # v /\ InHandler(w) /\ InHandler(v))
           => ~(ctxKeys[w] = "tcmap" /\ ctxKeys[v] = "tcmap")

\* the shape of a body: every member is null or an object whose code, if any,
\* is an integer; and whether it has the wrapper key
Decodes(b) ==
  /\ b.kind \in {"null", "object"}
  /\ \A k \in JsonKeys : b.fields[k].t \in {"absent", "null", "object"}
  /\ \A k \in JsonKeys : b.fields[k].codeT \in {"absent", "int"}
HasResponse(b) == b.kind = "object" /\ b.fields["response"].t # "absent"

CleanRun ==
  /\ pc = "done"
  /\ entry = "RunProfiling"
  /\ Len(ProfilingOutputFormats) > 0
  /\ \A f \in DOMAIN ProfilingOutputFormats :
        ProfilingOutputFormats[f] \in {"png", "pdf"}
  /\ ~tbFailed
  /\ ~panicked
  /\ captured = DOMAIN EnabledProfilingTypes
  /\ \A l \in logs : l[1] \in {"saved", "profile_written"}
\* cpu.<format> for each format, <kind>.<format> for each kind and format
ExpectedImages ==
  {<<"cpu", ProfilingOutputFormats[f]>> : f \in DOMAIN ProfilingOutputFormats}
  \cup {<<EnabledProfilingTypes[i], ProfilingOutputFormats[f]>> :
          i \in DOMAIN EnabledProfilingTypes, f \in DOMAIN ProfilingOutputFormats}
\* d is profiles/<base of FunctionName>/<Name with "_" for " ">, the middle
\* element dropping out when FunctionName is empty
IsProfileDirOf(d, name, functionName) ==
  LET mid == SubSeq(d, 10, Len(d) - Len(name) - 1) IN
  /\ Len(d) >= 9 + Len(name)
  /\ SubSeq(d, 1, 9) = Profiles \o <<"/">>
  /\ \A i \in DOMAIN name :
        d[Len(d) - Len(name) + i] = IF name[i] = " " THEN "_" ELSE name[i]
  /\ IF functionName = <<>>
       THEN Len(d) = 9 + Len(name)
       ELSE /\ d[Len(d) - Len(name)] = "/"
            /\ Len(mid) \in 1..Len(functionName)
            /\ \A i \in DOMAIN mid :
                  /\ mid[i] # "/"
                  /\ mid[i] = functionName[Len(functionName) - Len(mid) + i]
            /\ Len(mid) < Len(functionName)
                  => functionName[Len(functionName) - Len(mid)] = "/"

IsUuidString(u) ==
  /\ Len(u) = 36
  /\ \A i \in 1..36 :
        IF i \in {9, 14, 19, 24}
          THEN u[i] = "-"
          ELSE \E d \in 1..16 : u[i] = LowerHex[d] \/ u[i] = UpperHex[d]
\* u with its upper-case hex digits in lower case
LowerCased(u) ==
  [i \in DOMAIN u |->
     IF \E d \in 11..16 : u[i] = UpperHex[d]
       THEN LowerHex[CHOOSE d \in 11..16 : u[i] = UpperHex[d]]
       ELSE u[i]]

\* C12 (as amended): for a valid 36-character hyphenated UUID string u,
\* GetStringUUidFromBsonId(GetBsonIdFromUUId(u)) returns a nil error and u
\* with its hex digits in lower case: u itself exactly when u has no
\* upper-case digit.
C12_RoundTripLowerCases ==
  (upc = "done" /\ bsonID = binData /\ IsUuidString(uuidIn))
    => /\ uuidErr = "nil"
       /\ uuidOut = LowerCased(uuidIn)
       /\ uuidOut = uuidIn <=> (\A i \in 1..36 : \A d \in 11..16 : uuidIn[i] # UpperHex[d])

C12_Witness ==
  /\ upc = "done"
  /\ bsonID = binData
  /\ IsUuidString(uuidIn)
  /\ uuidIn[1] = "A"
  /\ uuidIn[36] = "0"
  /\ uuidOut[1] = "a"

\* C12 (as stated): for a valid 36-character hyphenated UUID string u with hex
\* digits in either letter case, the round trip returns u and a nil error.
C12_RoundTripIdentity ==
  (upc = "done" /\ bsonID = binData /\ IsUuidString(uuidIn))
    => uuidErr = "nil" /\ uuidOut = uuidIn

\* the string starts with BinData(0, ' and ends with ')
Wrapped(str) ==
  /\ Len(str) >= 12
  /\ \A i \in 1..12 : str[i] = BinDataPrefix[i]
  /\ str[Len(str) - 1] = "'"
  /\ str[Len(str)] = ")"
\* the number of bytes a well-formed payload of the wrapper stands for: three
\* for every four characters, less the "=" at its end
PayloadBytes(str) ==
  LET payload == SubSeq(str, 13, Len(str) - 2)
      pads == Cardinality({i \in {Len(payload) - 1, Len(payload)} :
                              i >= 1 /\ payload[i] = "="})
  IN  3 * (Len(payload) \div 4) - pads
\* the number of hex digits of a string, its hyphens left out
HexLength(str) == Cardinality({i \in DOMAIN str : str[i] # "-"})

\* C13: GetStringUUidFromBsonId returns an error and the empty string whenever
\* its input lacks the prefix BinData(0, ' or the suffix '), or the payload
\* stands for a number of bytes other than 16; that includes what
\* GetBsonIdFromUUId returns for a hex string that is not 16 bytes long.  An
\* error never comes with a UUID string.
C13_DecodeRejects ==
  upc = "done" =>
    /\ ~Wrapped(bsonID) => (uuidErr # "nil" /\ uuidOut = <<>>)
    /\ (Wrapped(bsonID) /\ Len(bsonID) >= 14 /\ PayloadBytes(bsonID) # 16)
          => (uuidErr # "nil" /\ uuidOut = <<>>)
    /\ (bsonID = binData /\ HexLength(uuidIn) # 32)
          => (uuidErr # "nil" /\ uuidOut = <<>>)
    /\ uuidErr # "nil" => uuidOut = <<>>

C13_Witness ==
  /\ upc = "done"
  /\ bsonID = binData
  /\ Wrapped(bsonID)
  /\ HexLength(uuidIn) = 30
  /\ uuidErr = "invalid UUID byte length"
  /\ uuidOut = <<>>

\* C14: the block and mutex sampling rates are raised only while the CPU
\* session is on: once RunProfiling has returned, whichever way, they are back
\* at the values they had before the run (the 0 of Init).
C14_RatesRestored ==
  /\ pc \in {"rp_begin", "rp_mkdir", "rp_cputemp", "rp_start"}
        => (blockRate = 0 /\ mutexRate = 0)
  /\ (pc = "done" /\ entry = "RunProfiling") => (blockRate = 0 /\ mutexRate = 0)

\* C15: every invocation of the sub-benchmark body with iteration count n
\* executes the handler exactly n times, and RunBenchmark asserts nothing.
C15_HandlerRunsNTimes ==
  /\ \A k \in DOMAIN benchLog : benchLog[k][2] = benchLog[k][1]
  /\ ~tbFailed
  /\ verdict = "running"

\* C16: directory preparation is idempotent: a call of MakeDirIfNotExists, or
\* the directory step of RunProfiling, on a directory that is there (made by
\* an earlier call or not) leaves it there with the permission bits it had;
\* the step reports no failure and RunProfiling goes on to its next step.
C16_DirPrepIdempotent ==
  [][/\ dirExists => (dirExists' /\ dirMode' = dirMode)
     /\ pc \in {"rp_mkdir", "mk_first", "mk_second"}
          => /\ UNCHANGED <<tbFailed, panicked, unwinding>>
             /\ pc' = CASE pc = "rp_mkdir" -> "rp_cputemp"
                        [] pc = "mk_first" -> "mk_second"
                        [] OTHER -> "done"]_vars

C16_Witness ==
  /\ entry = "MakeDirIfNotExists"
  /\ pc = "done"
  /\ faults = 0
  /\ dirExists
  /\ dirMode = Perm0755

\* the step of the run a position belongs to: 0 idle, 1 directory
\* preparation, 2 CPU session start, 3 workload, 4 CPU session stop, 5 CPU
\* export, 6 snapshot capture-and-export, 7 done
Step(p) ==
  CASE p = "rp_begin" -> 0
    [] p = "rp_mkdir" -> 1
    [] p \in {"rp_cputemp", "rp_start", "rp_rates"} -> 2
    [] p = "rp_workload" -> 3
    [] p = "rp_stop" -> 4
    [] p = "rp_cpu_export" -> 5
    [] p \in {"rp_kinds", "wpe_begin", "wpe_temp", "wpe_write", "wpe_export",
              "wpe_defers"} -> 6
    [] OTHER -> 7

\* C17: a RunProfiling run with a non-empty format list takes its steps in
\* the order directory preparation, CPU session start, workload, CPU session
\* stop, CPU export, snapshots, done: a step never leads back, it leads to the
\* next step or, in a run that fails or panics or meets an unsupported format,
\* ahead to done.  The workload runs while the session of the run is on and
\* not stopped; a kind is handed to the profile writer, the kinds before it
\* being done, in the order of EnabledProfilingTypes; and a profile is
\* captured only once the CPU profile was exported for every format.
C17_StepsInOrder ==
  [][(entry = "RunProfiling" /\ Len(ProfilingOutputFormats) > 0) =>
       /\ Step(pc') >= Step(pc)
       /\ Step(pc') > Step(pc) + 1
            => /\ Step(pc') = 7
               /\ \/ tbFailed'
                  \/ unwinding' = "panic"
                  \/ \E l \in logs' : l[1] = "invalid_format"
       /\ workloadRuns' # workloadRuns
            => /\ Step(pc) = 3
               /\ cpuProfiling = "run" /\ cpuProfiling' = "run"
               /\ stopCalls = 0
       /\ wpeCalls' # wpeCalls
            => /\ pc = "rp_kinds"
               /\ wpeCalls = 1..Cardinality(wpeCalls)
               /\ wpeCalls' = wpeCalls \cup {Cardinality(wpeCalls) + 1}
       /\ captured' # captured
            => /\ captured' = captured \cup {Cardinality(wpeCalls)}
               /\ stopCalls = 1
               /\ \A f \in DOMAIN ProfilingOutputFormats : <<0, f>> \in attempts]_vars

C17_Witness ==
  /\ entry = "RunProfiling"
  /\ pc = "done"
  /\ Len(ProfilingOutputFormats) = 2
  /\ workloadRuns = 1
  /\ stopCalls = 1
  /\ Len(EnabledProfilingTypes) = 2
  /\ captured = {1, 2}
  /\ ~tbFailed
  /\ ~panicked

\* C18: pprof.StopCPUProfile is called once for the start that succeeded and
\* not at all when none did: never more often than StartCPUProfile returned
\* nil, and as often once RunProfiling has returned.  The rendering tool reads
\* the CPU temp file only after that stop, the session of the run being off.
C18_StopOncePerStart ==
  /\ startCalls <= 1
  /\ stopCalls <= startCalls
  /\ pc = "done" => stopCalls = startCalls
  /\ tbFailed => (startCalls = 0 /\ stopCalls = 0)
  /\ \A c \in toolCalls :
        c[1] = CpuArtifact => (stopCalls = 1 /\ cpuProfiling # "run")

C18_Witness ==
  /\ entry = "RunProfiling"
  /\ pc = "done"
  /\ startCalls = 1
  /\ stopCalls = 1
  /\ \E f \in {"png", "pdf"} :
        /\ <<CpuArtifact, f>> \in toolCalls
        /\ files[<<"cpu", f>>] = "complete"

\* C19 (as amended): the CPU temp file is deleted when RunProfiling returns,
\* not before: it is on disk, never removed, at every step between its
\* creation and the return, the capture and export of every snapshot kind
\* included, and it is removed, once, when the run is done, whether or not the
\* exports succeeded.
C19_CpuTempDeletedAtReturn ==
  (entry = "RunProfiling" /\ CpuArtifact \in created) =>
    IF pc = "done"
      THEN CpuArtifact \notin existing /\ removes[CpuArtifact] = 1
      ELSE CpuArtifact \in existing /\ removes[CpuArtifact] = 0

C19_Witness ==
  /\ entry = "RunProfiling"
  /\ pc = "wpe_export"
  /\ 1 \in captured
  /\ \A f \in DOMAIN ProfilingOutputFormats : <<0, f>> \in attempts
  /\ \E f \in {"png", "pdf"} : <<"generate_failed", "cpu", f>> \in logs
  /\ CpuArtifact \in existing

\* C19 (as stated): once the CPU exports have been attempted, the CPU temp
\* file is deleted before the first snapshot kind is captured.
C19_CpuTempDeletedBeforeSnapshots ==
  (entry = "RunProfiling" /\ wpeCalls # {})
    => (CpuArtifact \notin existing /\ removes[CpuArtifact] = 1)

\* C20: of two overlapping RunProfiling calls at most one holds a CPU session
\* at a time; the call whose start failed never calls stop; so the session of
\* the other is on from its start to its own stop, and every iteration of its
\* workload is sampled.
C20_OneSessionKeptWhole ==
  /\ Cardinality({r \in Runs : rStarted[r] /\ rStops[r] = 0}) <= 1
  /\ \A r \in Runs :
        /\ rStops[r] <= 1
        /\ rFailed[r] # "none" => (~rStarted[r] /\ rStops[r] = 0)
        /\ rpc[r] \in {"export", "defers", "done"}
              => rStops[r] = (IF rStarted[r] THEN 1 ELSE 0)
        /\ (rStarted[r] /\ rStops[r] = 0) => cpuProfiling = r
        /\ rStarted[r] => rSampled[r] + rLeft[r] = BenchN

C20_Witness ==
  /\ rpc["runA"] = "done"
  /\ rFailed["runA"] = "StartCPUProfile"
  /\ rpc["runB"] = "stop"
  /\ rStarted["runB"]
  /\ rSampled["runB"] = BenchN
  /\ cpuProfiling = "runB"

====
